---- MODULE Spec2Model ----
(***************************************************************************)
(* A model of postman.py: CSV ingestion (import_csv_graph), component      *)
(* selection (validate_graph), the odd-vertex cost graph (odd_graph) and   *)
(* the route computation (chinese_postman_path).                           *)
(*                                                                         *)
(* A graph value is a function from edge keys to the sequence of weights   *)
(* of the edges between the key's endpoints.  An edge key is the set of    *)
(* the edge's endpoints: {u, v}, or {u} for a self-loop.  An nx.Graph      *)
(* keeps one weight per key, an nx.MultiGraph one weight per parallel      *)
(* edge.  Every node of the program's graphs is created by add_edge, so    *)
(* the node set of a graph is the union of its edge keys.                  *)
(*                                                                         *)
(* The coordinates and ids of the rows, the printed statistics and the    *)
(* GPX and CSV output take no part in the route and are left out.          *)
(*                                                                         *)
(* The networkx calls are modelled on networkx 1.x, the line the script    *)
(* is written for (connected_component_subgraphs returns a list,           *)
(* graph.node, python 2.7).  Dictionaries keyed by small non-negative      *)
(* integers iterate in ascending key order in CPython 2.7.                 *)
(***************************************************************************)
EXTENDS Integers, Sequences, FiniteSets, TLC

\* Node ids of ingested CSV rows are 1..RowNodes.
RowNodes == 3
\* Number of CSV rows read before the end of the file.
MaxRows == 3
\* Road lengths are 0 or MaxWeight; a CSV row may also carry -MaxWeight.
MaxWeight == 1
\* Node ids and number of edges of the graphs given to the component selector.
SelNodes == 6
SelEdges == 5
\* Node ids and number of edges of the graphs given to chinese_postman_path.
MaxNode == 4
MaxEdges == 5

VARIABLES
    pc,               \* position in __main__
    rows,             \* number of CSV rows read so far
    row,              \* the last CSV row read: <<start_node, end_node, length>>, <<>> if none
    graph,            \* the graph built by import_csv_graph
    warned,           \* the multiple-components warning was printed
    main_component,   \* the graph returned by validate_graph
    err,              \* the exception that ended the program, "none" if none
    odd,              \* the odd-vertex cost graph: pair key -> [weight, path]
    matching,         \* the mate dictionary of max_weight_matching
    items,            \* matching.items() still to be visited by the loop
    visited,          \* the (u, v) items for which the loop body added a path
    eulerian_graph,   \* the augmented multigraph
    nodes             \* the returned node sequence

vars == <<pc, rows, row, graph, warned, main_component, err, odd, matching,
          items, visited, eulerian_graph, nodes>>

----------------------------------------------------------------------------
\* Helpers on sets, sequences and graph values

Min(S) == CHOOSE x \in S : \A y \in S : x <= y

RECURSIVE SumSeq(_)
SumSeq(s) == IF s = <<>> THEN 0 ELSE Head(s) + SumSeq(Tail(s))

RECURSIVE SetToSeq(_)
\* The elements of a set of integers in ascending order.
SetToSeq(S) == IF S = {} THEN <<>> ELSE <<Min(S)>> \o SetToSeq(S \ {Min(S)})

EmptyGraph == [e \in {} |-> <<>>]

NodesOf(g) == UNION (DOMAIN g)

\* the weight of a duplicate, were it added without its weight
WeightNone(g, p, q) == 0

\* graph[p][q]['weight'] of an nx.Graph
Weight(g, p, q) == g[{p, q}][1]

\* nx.Graph.add_edge(u, v, weight=w): one edge per key, a second add overwrites
Graph_add_edge(g, u, v, w) ==
    [e \in (DOMAIN g) \cup {{u, v}} |-> IF e = {u, v} THEN <<w>> ELSE g[e]]

\* nx.MultiGraph.add_edge(u, v, weight=w): a parallel edge is appended
MultiGraph_add_edge(g, u, v, w) ==
    [e \in (DOMAIN g) \cup {{u, v}} |->
        IF e = {u, v}
        THEN (IF e \in DOMAIN g THEN Append(g[e], w) ELSE <<w>>)
        ELSE g[e]]

\* nx.MultiGraph(graph): a new multigraph with the edges of graph
MultiGraph(g) == [e \in DOMAIN g |-> g[e]]

\* Graph.number_of_edges(), counting parallel edges
NumberOfEdges(g) ==
    LET RECURSIVE Count(_)
        Count(K) == IF K = {} THEN 0
                    ELSE LET e == CHOOSE x \in K : TRUE
                         IN Len(g[e]) + Count(K \ {e})
    IN Count(DOMAIN g)

\* graph.degree(n): a self-loop counts twice
Degree(g, n) ==
    LET RECURSIVE Count(_)
        Count(K) == IF K = {} THEN 0
                    ELSE LET e == CHOOSE x \in K : TRUE
                         IN (IF n \in e THEN (IF e = {n} THEN 2 ELSE 1) * Len(g[e]) ELSE 0)
                            + Count(K \ {e})
    IN Count(DOMAIN g)

\* the nodes reachable from the nodes of S over the edge keys K
RECURSIVE Reach(_, _)
Reach(K, S) ==
    LET T == S \cup UNION {e \in K : e \cap S # {}}
    IN IF T = S THEN S ELSE Reach(K, T)

\* nx.is_connected on the node set N with the edge keys K
IsConnected(N, K) == N # {} /\ Reach(K, {Min(N)}) \cap N = N

\* G.subgraph(c): the edges with both endpoints in c
Subgraph(g, c) == [e \in {k \in DOMAIN g : k \subseteq c} |-> g[e]]

----------------------------------------------------------------------------
\* import_csv_graph

RowLengths == {0 - MaxWeight, 0, MaxWeight}

\* a row whose first field is not a digit string (a header row) is skipped
SkipRow ==
    /\ pc = "import"
    /\ rows < MaxRows
    /\ rows' = rows + 1
    /\ UNCHANGED <<pc, row, graph, warned, main_component, err, odd, matching,
                   items, visited, eulerian_graph, nodes>>

\* import_csv_graph, were it to leave out the rows the data model forbids
AddEdgeChecked(u, v, w) ==
    IF w < 0 \/ u = v THEN graph ELSE Graph_add_edge(graph, u, v, w)

\* a row start_node, end_node, length: graph.add_edge(start_node, end_node, weight=length)
AddEdge(u, v, w) == Graph_add_edge(graph, u, v, w)

ReadRow ==
    /\ pc = "import"
    /\ rows < MaxRows
    /\ \E u \in 1..RowNodes, v \in 1..RowNodes, w \in RowLengths :
          /\ row' = <<u, v, w>>
          /\ graph' = AddEdge(u, v, w)
    /\ rows' = rows + 1
    /\ UNCHANGED <<pc, warned, main_component, err, odd, matching,
                   items, visited, eulerian_graph, nodes>>

\* the reader is exhausted: return graph
EndOfFile ==
    /\ pc = "import"
    /\ pc' = "validate"
    /\ UNCHANGED <<rows, row, graph, warned, main_component, err, odd, matching,
                   items, visited, eulerian_graph, nodes>>

----------------------------------------------------------------------------
\* validate_graph

\* nx.connected_components: a component per not yet seen node, in node order,
\* then sorted by number of nodes, largest first (a stable sort)
RECURSIVE Discover(_, _)
Discover(g, todo) ==
    IF todo = {} THEN <<>>
    ELSE LET c == Reach(DOMAIN g, {Min(todo)})
         IN <<c>> \o Discover(g, todo \ c)

\* list.sort(key=..., reverse=True): descending by key, equal keys keep their order
RECURSIVE SortDescending(_, _)
SortDescending(s, key) ==
    IF s = <<>> THEN <<>>
    ELSE LET best == Min({i \in 1..Len(s) : \A j \in 1..Len(s) : key[s[j]] <= key[s[i]]})
             rest == [i \in 1..(Len(s) - 1) |-> IF i < best THEN s[i] ELSE s[i + 1]]
         IN <<s[best]>> \o SortDescending(rest, key)

connected_components(g) ==
    LET found == Discover(g, NodesOf(g))
        cs == {found[i] : i \in 1..Len(found)}
    IN SortDescending(found, [c \in cs |-> Cardinality(c)])

connected_component_subgraphs(g) ==
    LET cc == connected_components(g)
    IN [i \in 1..Len(cc) |-> Subgraph(g, cc[i])]

\* the sort key, were it c.order(), the number of nodes of the component
SizeAsOrder(c) == Cardinality(NodesOf(c))

\* c.size(): the number of edges of the component
Size(c) == NumberOfEdges(c)

SortedComponents(g) ==
    LET components == connected_component_subgraphs(g)
        cs == {components[i] : i \in 1..Len(components)}
    IN SortDescending(components, [c \in cs |-> Size(c)])

\* validate_graph, were it to refuse every graph that is not one component
ValidateErrorUnlessOne(components) ==
    IF Len(components) # 1 THEN "IndexError" ELSE "none"

\* components[0] of an empty list raises IndexError
ValidateError(components) == IF Len(components) = 0 THEN "IndexError" ELSE "none"

validate_graph ==
    /\ pc = "validate"
    /\ LET components == SortedComponents(graph)
           e == ValidateError(components)
       IN /\ warned' = (Len(components) > 1)
          /\ err' = e
          /\ IF e # "none"
             THEN /\ pc' = "failed"
                  /\ UNCHANGED main_component
             ELSE /\ pc' = "postman"
                  /\ main_component' = components[1]
    /\ UNCHANGED <<rows, row, graph, odd, matching, items, visited,
                   eulerian_graph, nodes>>

----------------------------------------------------------------------------
\* pairs(lst): the pairs of successive items of a list

\* pairs, were it to stop one pair short
pairsShort(lst) == [i \in 1..(Len(lst) - 2) |-> <<lst[i], lst[i + 1]>>]

pairs(lst) == [i \in 1..(Len(lst) - 1) |-> <<lst[i], lst[i + 1]>>]

----------------------------------------------------------------------------
\* odd_graph

\* the neighbours of v: the keys of G[v]
Neighbors(g, v) == {w \in NodesOf(g) : {v, w} \in DOMAIN g}

\* nx.shortest_path(graph, source=u) without a weight argument: breadth-first
\* search.  A node of the next level gets the path of the first node of the
\* current level that has it as a neighbour.
RECURSIVE BreadthFirst(_, _, _)
BreadthFirst(g, paths, thislevel) ==
    IF thislevel = {} THEN paths
    ELSE LET nextlevel == {w \in NodesOf(g) \ DOMAIN paths :
                              \E v \in thislevel : w \in Neighbors(g, v)}
             first(w) == Min({v \in thislevel : w \in Neighbors(g, v)})
             extended == [w \in (DOMAIN paths) \cup nextlevel |->
                             IF w \in DOMAIN paths THEN paths[w]
                             ELSE Append(paths[first(w)], w)]
         IN BreadthFirst(g, extended, nextlevel)

shortest_path(g, source) ==
    BreadthFirst(g, [n \in {source} |-> <<source>>], {source})

\* nx.shortest_path_length(graph, source=u) without a weight argument: the
\* number of edges of a breadth-first path
shortest_path_length(g, source) ==
    LET paths == shortest_path(g, source)
    IN [n \in DOMAIN paths |-> Len(paths[n]) - 1]

odd_nodes(g) == {n \in NodesOf(g) : Degree(g, n) % 2 = 1}

\* result.add_edge(u, v, weight=-lengths[v], path=paths[v]) for every u > v
odd_graph(g) ==
    LET on == odd_nodes(g)
    IN [k \in {{u, v} : u \in on, v \in on} \ {{u} : u \in on} |->
           LET v == Min(k)
               u == CHOOSE x \in k : x # v
           IN [weight |-> 0 - shortest_path_length(g, u)[v],
               path |-> shortest_path(g, u)[v]]]

----------------------------------------------------------------------------
\* nx.max_weight_matching(odd, True)

IsMatching(M) == \A a \in M, b \in M : a # b => a \cap b = {}

MatchingWeight(o, M) ==
    LET RECURSIVE Total(_)
        Total(K) == IF K = {} THEN 0
                    ELSE LET k == CHOOSE x \in K : TRUE
                         IN o[k].weight + Total(K \ {k})
    IN Total(M)

\* the matchings of maximum cardinality, and of maximum weight among those;
\* which of several the library returns is left open
MaxWeightMatchings(o) ==
    LET all == {M \in SUBSET (DOMAIN o) : IsMatching(M)}
        largest == {M \in all : \A L \in all : Cardinality(L) <= Cardinality(M)}
    IN {M \in largest : \A L \in largest : MatchingWeight(o, L) <= MatchingWeight(o, M)}

\* the returned dictionary: mate[u] = v and mate[v] = u for every matched pair
Mate(M) == [n \in UNION M |-> CHOOSE m \in UNION M : m # n /\ {n, m} \in M]

\* matching.items(), in key order
Items(mate) ==
    LET keys == SetToSeq(DOMAIN mate)
    IN [i \in 1..Len(keys) |-> <<keys[i], mate[keys[i]]>>]

----------------------------------------------------------------------------
\* nx.eulerian_circuit

\* nx.is_eulerian: every degree is even and the graph is connected
is_eulerian(g) ==
    /\ \A n \in NodesOf(g) : Degree(g, n) % 2 = 0
    /\ IsConnected(NodesOf(g), DOMAIN g)

\* g.remove_edge(n, v): one of the parallel edges goes
RemoveEdge(g, n, v) ==
    [e \in {k \in DOMAIN g : k # {n, v} \/ Len(g[k]) > 1} |->
        IF e = {n, v} THEN SubSeq(g[e], 1, Len(g[e]) - 1) ELSE g[e]]

\* bridge = not nx.is_connected(g) once the edge (n, v) is removed from g,
\* where N is the node set of g
IsBridge(N, g, n, v) == ~IsConnected(N, DOMAIN RemoveEdge(g, n, v))

\* The loop of eulerian_circuit: from n, the first neighbour in sorted order
\* whose edge is not a bridge is taken; if every edge is a bridge the last
\* one is taken and n is removed from the working copy.
RECURSIVE Fleury(_, _, _, _)
Fleury(N, g, n, circuit) ==
    IF NumberOfEdges(g) = 0 THEN circuit
    ELSE LET nbrs == Neighbors(g, n)
             good == {v \in nbrs : ~IsBridge(N, g, n, v)}
             bridge == good = {}
             v == IF bridge THEN CHOOSE x \in nbrs : \A y \in nbrs : y <= x
                  ELSE Min(good)
             rest == RemoveEdge(g, n, v)
         IN IF bridge
            THEN Fleury(N \ {n}, [e \in {k \in DOMAIN rest : n \notin k} |-> rest[e]],
                        v, Append(circuit, <<n, v>>))
            ELSE Fleury(N, rest, v, Append(circuit, <<n, v>>))

\* list(nx.eulerian_circuit(G)): the walk starts at the first node of G
eulerian_circuit(g) == Fleury(NodesOf(g), g, Min(NodesOf(g)), <<>>)

\* nodes, were the loop left open
NodeSequenceOpen(circuit) == [i \in 1..Len(circuit) |-> circuit[i][1]]

\* nodes: the first node of every circuit edge, then circuit[0][0] to close the loop
NodeSequence(circuit) ==
    Append([i \in 1..Len(circuit) |-> circuit[i][1]], circuit[1][1])

\* edge_sum: the total weight of the edges, parallel edges included
edge_sum(g) ==
    LET RECURSIVE Total(_)
        Total(K) == IF K = {} THEN 0
                    ELSE LET e == CHOOSE x \in K : TRUE
                         IN SumSeq(g[e]) + Total(K \ {e})
    IN Total(DOMAIN g)

----------------------------------------------------------------------------
\* chinese_postman_path

\* odd = odd_graph(graph)
OddGraph ==
    /\ pc = "postman"
    /\ odd' = odd_graph(main_component)
    /\ pc' = "match"
    /\ UNCHANGED <<rows, row, graph, warned, main_component, err, matching,
                   items, visited, eulerian_graph, nodes>>

\* matching = nx.max_weight_matching(odd, True); eulerian_graph = nx.MultiGraph(graph)
Matching ==
    /\ pc = "match"
    /\ \E M \in MaxWeightMatchings(odd) :
          /\ matching' = Mate(M)
          /\ items' = Items(Mate(M))
    /\ eulerian_graph' = MultiGraph(main_component)
    /\ pc' = "augment"
    /\ UNCHANGED <<rows, row, graph, warned, main_component, err, odd,
                   visited, nodes>>

\* the loop, were it to visit (u => v) and (v => u) alike
SkipItemNever(u, v) == FALSE

\* if v <= u: continue
SkipItem(u, v) == v <= u

\* for p, q in pairs(path): eulerian_graph.add_edge(p, q, weight=graph[p][q]['weight'])
RECURSIVE AddPath(_, _, _)
AddPath(eg, g, segments) ==
    IF segments = <<>> THEN eg
    ELSE LET p == Head(segments)[1]
             q == Head(segments)[2]
         IN AddPath(MultiGraph_add_edge(eg, p, q, Weight(g, p, q)), g, Tail(segments))

\* one pass of the loop, were eulerian_graph the base graph itself and not a copy
AugmentItemInPlace ==
    /\ pc = "augment"
    /\ items # <<>>
    /\ LET u == Head(items)[1]
           v == Head(items)[2]
       IN IF SkipItem(u, v)
          THEN UNCHANGED <<eulerian_graph, main_component, visited>>
          ELSE /\ eulerian_graph' =
                     AddPath(eulerian_graph, main_component, pairs(odd[{u, v}].path))
               /\ main_component' = eulerian_graph'
               /\ visited' = Append(visited, <<u, v>>)
    /\ items' = Tail(items)
    /\ UNCHANGED <<pc, rows, row, graph, warned, err, odd, matching, nodes>>

\* one pass of the loop over matching.items()
AugmentItem ==
    /\ pc = "augment"
    /\ items # <<>>
    /\ LET u == Head(items)[1]
           v == Head(items)[2]
       IN IF SkipItem(u, v)
          THEN UNCHANGED <<eulerian_graph, visited>>
          ELSE /\ eulerian_graph' =
                     AddPath(eulerian_graph, main_component, pairs(odd[{u, v}].path))
               /\ visited' = Append(visited, <<u, v>>)
    /\ items' = Tail(items)
    /\ UNCHANGED <<pc, rows, row, graph, warned, main_component, err, odd,
                   matching, nodes>>

\* circuit = list(nx.eulerian_circuit(eulerian_graph)); nodes; return
Circuit ==
    /\ pc = "augment"
    /\ items = <<>>
    /\ IF is_eulerian(eulerian_graph)
       THEN /\ nodes' = NodeSequence(eulerian_circuit(eulerian_graph))
            /\ pc' = "done"
            /\ UNCHANGED err
       ELSE /\ err' = "NetworkXError"
            /\ pc' = "failed"
            /\ UNCHANGED nodes
    /\ UNCHANGED <<rows, row, graph, warned, main_component, odd, matching,
                   items, visited, eulerian_graph>>

----------------------------------------------------------------------------
\* The program: the rows of a CSV file, then validate_graph, then
\* chinese_postman_path

Blank ==
    /\ rows = 0
    /\ row = <<>>
    /\ warned = FALSE
    /\ main_component = EmptyGraph
    /\ err = "none"
    /\ odd = EmptyGraph
    /\ matching = EmptyGraph
    /\ items = <<>>
    /\ visited = <<>>
    /\ eulerian_graph = EmptyGraph
    /\ nodes = <<>>

Init ==
    /\ pc = "import"
    /\ graph = EmptyGraph
    /\ Blank

Next ==
    \/ SkipRow
    \/ ReadRow
    \/ EndOfFile
    \/ validate_graph
    \/ OddGraph
    \/ Matching
    \/ AugmentItem
    \/ Circuit

Spec == Init /\ [][Next]_vars

----------------------------------------------------------------------------
\* chinese_postman_path on the graphs the data model allows: simple, with
\* lengths that are not negative.  The graph is a connected one, as
\* import_csv_graph builds it from the rows of its edges.

Lengths == {0, MaxWeight}

EdgeKeys(n) == {{u, v} : u \in 1..n, v \in 1..n} \ {{u} : u \in 1..n}

\* the subsets of S with at most k elements
RECURSIVE SubsetsUpTo(_, _)
SubsetsUpTo(S, k) ==
    IF k = 0 \/ S = {} THEN {{}}
    ELSE LET x == CHOOSE y \in S : TRUE
             without == SubsetsUpTo(S \ {x}, k)
             with == {T \cup {x} : T \in SubsetsUpTo(S \ {x}, k - 1)}
         IN without \cup with

SimpleGraphs(n, k, lengths) ==
    UNION {[K -> {<<w>> : w \in lengths}] : K \in SubsetsUpTo(EdgeKeys(n), k)}

InitCPP ==
    /\ pc = "validate"
    /\ graph \in {g \in SimpleGraphs(MaxNode, MaxEdges, Lengths) :
                     IsConnected(NodesOf(g), DOMAIN g)}
    /\ Blank

NextCPP ==
    \/ validate_graph
    \/ OddGraph
    \/ Matching
    \/ AugmentItem
    \/ Circuit

SpecCPP == InitCPP /\ [][NextCPP]_vars

\* validate_graph on simple graphs of any number of components
InitSel ==
    /\ pc = "validate"
    /\ graph \in SimpleGraphs(SelNodes, SelEdges, {MaxWeight})
    /\ Blank

NextSel == validate_graph

SpecSel == InitSel /\ [][NextSel]_vars

----------------------------------------------------------------------------
\* Definitions the properties are stated with

AfterValidate == {"postman", "match", "augment", "done"}

Augmented == pc = "done" \/ (pc = "augment" /\ items = <<>>)

\* the length of the road with key e in the base graph
RoadLength(g, e) == g[e][1]

\* the keys of the consecutive pairs of a node sequence
StepKey(ns, i) == {ns[i], ns[i + 1]}

Steps(ns) == 1..(Len(ns) - 1)

\* every consecutive pair of ns is an edge of g
IsWalk(g, ns) == Len(ns) >= 2 /\ \A i \in Steps(ns) : StepKey(ns, i) \in DOMAIN g

IsClosed(ns) == Len(ns) >= 2 /\ ns[1] = ns[Len(ns)]

\* the sum of the weights of the consecutive pairs of a walk of g
WalkWeight(g, ns) ==
    LET RECURSIVE Total(_)
        Total(i) == IF i = 0 THEN 0 ELSE RoadLength(g, StepKey(ns, i)) + Total(i - 1)
    IN Total(Len(ns) - 1)

SumLengths(g, D) ==
    LET RECURSIVE Total(_)
        Total(K) == IF K = {} THEN 0
                    ELSE LET e == CHOOSE x \in K : TRUE
                         IN RoadLength(g, e) + Total(K \ {e})
    IN Total(D)

\* the sets D of edges of a simple graph g whose second traversal leaves
\* every node with an even number of traversals
EvenDuplications(g) ==
    {D \in SUBSET (DOMAIN g) :
        \A n \in NodesOf(g) :
            (Cardinality({e \in DOMAIN g : n \in e}) + Cardinality({e \in D : n \in e})) % 2 = 0}

\* The least weight of a closed walk over every edge of a connected simple
\* graph g with lengths >= 0.  Such a walk traverses every edge once or more
\* and every node an even number of times; dropping two traversals of an
\* edge traversed three times or more keeps both and adds no weight, so a
\* lightest walk traverses every edge once or twice.
OptimalTourWeight(g) ==
    LET costs == {SumLengths(g, D) : D \in EvenDuplications(g)}
    IN SumLengths(g, DOMAIN g) + Min(costs)

\* the weighted shortest-path distances from s in a graph with lengths >= 0:
\* as many rounds of relaxation as the graph has nodes
RECURSIVE Relax(_, _, _)
Relax(g, d, k) ==
    IF k = 0 THEN d
    ELSE Relax(g,
               [n \in NodesOf(g) |->
                   Min({d[n]} \cup {d[m] + RoadLength(g, {m, n}) :
                                       m \in {x \in NodesOf(g) : x # n /\ {x, n} \in DOMAIN g}})],
               k - 1)

Distance(g, s, t) ==
    LET far == SumLengths(g, DOMAIN g) + 1
    IN Relax(g, [n \in NodesOf(g) |-> IF n = s THEN 0 ELSE far],
             Cardinality(NodesOf(g)))[t]

\* the keys of the edges along a path
PathKeys(path) == {StepKey(path, i) : i \in Steps(path)}

\* the pairs of the matching
MatchedPairs == {{n, matching[n]} : n \in DOMAIN matching}

\* the node sets of the connected components of a graph
ComponentsOf(g) == {Reach(DOMAIN g, {n}) : n \in NodesOf(g)}

EdgesWithin(g, c) == Cardinality({e \in DOMAIN g : e \subseteq c})

----------------------------------------------------------------------------
\* C1: for a connected simple graph with lengths >= 0 and an edge, the
\* returned node sequence is a closed walk of the graph over every one of
\* its edges, and no closed walk over every edge weighs less.
C1_MinimumClosedWalk ==
    pc = "done" =>
        /\ IsClosed(nodes)
        /\ IsWalk(main_component, nodes)
        /\ \A e \in DOMAIN main_component : \E i \in Steps(nodes) : StepKey(nodes, i) = e
        /\ WalkWeight(main_component, nodes) = OptimalTourWeight(main_component)

\* C2: for a connected graph with an edge the call does not fail, and the
\* returned node sequence is closed, has as many consecutive pairs as the
\* augmented multigraph has edges, and its consecutive pairs use every edge
\* of the augmented multigraph, parallel edges counted, exactly once.
C2_CircuitUsesEveryEdgeOnce ==
    /\ pc # "failed"
    /\ pc = "done" =>
        /\ IsClosed(nodes)
        /\ Len(nodes) - 1 = NumberOfEdges(eulerian_graph)
        /\ IsWalk(eulerian_graph, nodes)
        /\ \A e \in DOMAIN eulerian_graph :
              Cardinality({i \in Steps(nodes) : StepKey(nodes, i) = e})
                  = Len(eulerian_graph[e])

C2_Witness ==
    /\ pc = "done"
    /\ \E e \in DOMAIN eulerian_graph : Len(eulerian_graph[e]) = 2
    /\ \E e \in DOMAIN eulerian_graph : Len(eulerian_graph[e]) = 1
    /\ Len(nodes) >= 6

\* C3: once the augmentation loop has visited every item of the matching,
\* every node of the augmented multigraph has even degree.
C3_EvenDegrees ==
    Augmented => \A n \in NodesOf(eulerian_graph) : Degree(eulerian_graph, n) % 2 = 0

C3_Witness ==
    /\ pc = "augment"
    /\ items = <<>>
    /\ Len(visited) = 2
    /\ \A n \in NodesOf(eulerian_graph) : Degree(eulerian_graph, n) % 2 = 0

\* C4 as stated: the augmented multigraph weighs at least as much as the
\* base graph, and exactly as much if and only if the base graph has no
\* node of odd degree.
C4_Original ==
    pc = "done" =>
        /\ edge_sum(eulerian_graph) >= edge_sum(main_component)
        /\ (edge_sum(eulerian_graph) = edge_sum(main_component))
               <=> (odd_nodes(main_component) = {})

\* C4 as amended: the augmented multigraph weighs at least as much as the
\* base graph; exactly as much if the base graph has no node of odd degree;
\* and, when every length is greater than zero, exactly as much only if the
\* base graph has no node of odd degree.
C4_AugmentedWeight ==
    pc = "done" =>
        /\ edge_sum(eulerian_graph) >= edge_sum(main_component)
        /\ odd_nodes(main_component) = {}
               => edge_sum(eulerian_graph) = edge_sum(main_component)
        /\ (/\ \A e \in DOMAIN main_component : RoadLength(main_component, e) > 0
            /\ edge_sum(eulerian_graph) = edge_sum(main_component))
               => odd_nodes(main_component) = {}

C4_Witness ==
    /\ pc = "done"
    /\ \A e \in DOMAIN main_component : RoadLength(main_component, e) > 0
    /\ odd_nodes(main_component) # {}
    /\ edge_sum(eulerian_graph) > edge_sum(main_component)

----------------------------------------------------------------------------
----------------------------------------------------------------------------
----------------------------------------------------------------------------
\* C8: for every two nodes u, v of odd degree, the edge of the odd-vertex
\* cost graph weighs minus the weighted shortest-path distance between u and
\* v in the base graph, and its path is a path of the base graph between u
\* and v whose lengths add up to that distance.
C8_WeightedShortestPaths ==
    pc \in {"match", "augment", "done"} =>
        \A u \in odd_nodes(main_component), v \in odd_nodes(main_component) :
            u # v =>
                /\ {u, v} \in DOMAIN odd
                /\ odd[{u, v}].weight = 0 - Distance(main_component, u, v)
                /\ IsWalk(main_component, odd[{u, v}].path)
                /\ {odd[{u, v}].path[1], odd[{u, v}].path[Len(odd[{u, v}].path)]} = {u, v}
                /\ WalkWeight(main_component, odd[{u, v}].path)
                       = Distance(main_component, u, v)

----------------------------------------------------------------------------
\* C9: every node of odd degree is in exactly one matched pair, the loop
\* adds the path of every matched pair exactly once, and the augmented
\* multigraph has of every edge the base edge and one more copy for every
\* matched pair whose path goes over it, and nothing else.
C9_EachPairOnce ==
    Augmented =>
        /\ \A n \in odd_nodes(main_component) :
              Cardinality({k \in MatchedPairs : n \in k}) = 1
        /\ \A k \in MatchedPairs :
              Cardinality({i \in 1..Len(visited) : {visited[i][1], visited[i][2]} = k}) = 1
        /\ Len(visited) = Cardinality(MatchedPairs)
        /\ DOMAIN eulerian_graph = DOMAIN main_component
        /\ \A e \in DOMAIN main_component :
              LET over == {k \in MatchedPairs : e \in PathKeys(odd[k].path)}
              IN /\ Len(eulerian_graph[e]) = 1 + Cardinality(over)
                 /\ \A i \in 1..Len(eulerian_graph[e]) :
                       eulerian_graph[e][i] = RoadLength(main_component, e)

C9_Witness ==
    /\ pc = "augment"
    /\ items = <<>>
    /\ Cardinality(MatchedPairs) = 2
    /\ Len(visited) = 2
    /\ Cardinality({e \in DOMAIN eulerian_graph : Len(eulerian_graph[e]) = 2}) = 3

BaseGraphKept ==
    pc \in AfterValidate =>
        (/\ main_component' = main_component
         /\ \A e \in DOMAIN main_component' : Len(main_component'[e]) = 1)

\* C10: from the call of chinese_postman_path on, the base graph stays as
\* it was, one edge per pair of endpoints; the duplicates are in the
\* augmented multigraph only.
C10_BaseGraphUnchanged == [][BaseGraphKept]_vars

C10_Witness ==
    /\ pc = "done"
    /\ NumberOfEdges(eulerian_graph) > NumberOfEdges(main_component)
    /\ main_component = graph

====
